---- MODULE Spec2Model ----
(***************************************************************************)
(* Rate-Monotonic schedulability simulator (ece_652_final.py).             *)
(*                                                                         *)
(* The model follows main(): load_workload reads the workload file line by *)
(* line and builds the Task list, then simulate_rm runs the tick loop.     *)
(* The file is read lazily: each LoadXxx action is one iteration of the    *)
(* `for idx, line in enumerate(fh)` loop on a line of that kind.           *)
(*                                                                         *)
(* A numeric field x of a record is represented by the integer             *)
(* h = 2 * x * scale ("half ticks"), so that the rounding of               *)
(* int(round(x * scale)) is visible: h = 3 is x*scale = 1.5.               *)
(***************************************************************************)
EXTENDS Integers, Sequences, FiniteSets, TLC

\* ------------------------------------------------------------------------
\* Bounds of the model
\* ------------------------------------------------------------------------
MaxLines == 3

\* scaled values (ticks) the fields of a record are drawn from
ExecTicks == {1, 2}
PeriodTicks == {2, 3, 4, 6}
DeadlineTicks == {4, 6}

\* half-tick inputs: every tick value exactly, plus inputs that round to a
\* neighbouring tick, to zero, or are negative
HalfExec == {2 * x : x \in ExecTicks} \cup {-2, 0, 1, 3}
HalfPeriod == {2 * x : x \in PeriodTicks} \cup {1}
HalfDeadline == {2 * x : x \in DeadlineTicks} \cup {0}

None == [task |-> 0, deadline |-> 0]

VARIABLES
    pc,        \* position in main / load_workload / simulate_rm
    idx,       \* load_workload: enumerate index of the next line
    tasks,     \* List[Task]: sequence of [id, e, p, d]
    preempts,  \* simulate_rm: preempts list (index i+1 holds preempts[i])
    hyper,     \* simulate_rm: hyper
    horizon,   \* simulate_rm: horizon
    ready,     \* simulate_rm: ready list of Job objects
    current,   \* simulate_rm: the Job object current refers to, or None
    chosen,    \* simulate_rm: the Job object chosen refers to, or None
    time,      \* simulate_rm: time
    feasible,  \* first component of the returned pair ("true"/"false"); "none" before return
    trace      \* history: what each tick of the loop did, trace[t+1] for tick t

vars == <<pc, idx, tasks, preempts, hyper, horizon, ready, current, chosen,
          time, feasible, trace>>

simVars == <<preempts, hyper, horizon, ready, current, chosen, time, feasible, trace>>

\* ------------------------------------------------------------------------
\* Helper functions
\* ------------------------------------------------------------------------
RECURSIVE gcd(_, _)
gcd(a, b) == IF b = 0 THEN a ELSE gcd(b, a % b)

\* mutant: the product instead of the least common multiple
_lcm_NoGcd(a, b) == a * b

_lcm(a, b) == (a * b) \div gcd(a, b)

RECURSIVE _hyper_period(_)
_hyper_period(periods) ==
    IF Len(periods) = 1 THEN periods[1]
    ELSE _lcm(_hyper_period(SubSeq(periods, 1, Len(periods) - 1)),
              periods[Len(periods)])

RECURSIVE MaxOf(_)
MaxOf(s) ==
    IF Len(s) = 1 THEN s[1]
    ELSE LET m == MaxOf(Tail(s)) IN IF s[1] >= m THEN s[1] ELSE m

\* int(round(x * scale)) for x * scale = h / 2: round half to even
ScaleRound(h) ==
    IF h % 2 = 0 THEN h \div 2
    ELSE LET k == (h - 1) \div 2 IN IF k % 2 = 0 THEN k ELSE k + 1

\* Task.__init__ : the fields of the Task built from the half-tick inputs
Task(task_id, he, hp, hd) ==
    [id |-> task_id, e |-> ScaleRound(he), p |-> ScaleRound(hp), d |-> ScaleRound(hd)]

\* mutant: zero is accepted, only negative values are rejected
TaskInvalid_OnlyNegative(t) == t.e < 0 \/ t.p < 0 \/ t.d < 0

\* Task.__init__ raises ValueError
TaskInvalid(t) == t.e <= 0 \/ t.p <= 0 \/ t.d <= 0

\* mutant: the absolute deadline is the end of the period
Job_DeadlineIsPeriod(k, release_time) ==
    [task |-> k, remaining |-> tasks[k].e, deadline |-> release_time + tasks[k].p]

\* Job.__init__ ; task is the position of the Task object in tasks
Job(k, release_time) ==
    [task |-> k, remaining |-> tasks[k].e, deadline |-> release_time + tasks[k].d]

\* identity of a Job object: jobs of one task differ in their deadline
JobRef(job) == [task |-> job.task, deadline |-> job.deadline]

\* ------------------------------------------------------------------------
\* Init
\* ------------------------------------------------------------------------
Init ==
    /\ pc = "load"
    /\ idx = 0
    /\ tasks = <<>>
    /\ preempts = <<>>
    /\ hyper = 0
    /\ horizon = 0
    /\ ready = <<>>
    /\ current = None
    /\ chosen = None
    /\ time = 0
    /\ feasible = "none"
    /\ trace = <<>>

\* ------------------------------------------------------------------------
\* load_workload
\* ------------------------------------------------------------------------
\* a blank line: `continue`
LoadBlank ==
    /\ pc = "load"
    /\ idx < MaxLines
    /\ idx' = idx + 1
    /\ UNCHANGED <<pc, tasks, simVars>>

\* a line that does not split into three floats: ValueError, main exits 1
LoadMalformed ==
    /\ pc = "load"
    /\ idx < MaxLines
    /\ pc' = "exit1"
    /\ UNCHANGED <<idx, tasks, simVars>>

\* a record with a field float() reads as nan or inf: int(round(...)) raises
\* ValueError (caught, exit 1) or OverflowError (uncaught); the program ends
LoadNonFinite ==
    /\ pc = "load"
    /\ idx < MaxLines
    /\ pc' = "exit1"
    /\ UNCHANGED <<idx, tasks, simVars>>

\* a record of three numbers: Task(idx, e, p, d) and append, or ValueError
LoadRecord ==
    /\ pc = "load"
    /\ idx < MaxLines
    /\ \E he \in HalfExec, hp \in HalfPeriod, hd \in HalfDeadline :
         LET t == Task(idx, he, hp, hd) IN
         IF TaskInvalid(t)
         THEN /\ pc' = "exit1"
              /\ UNCHANGED <<idx, tasks>>
         ELSE /\ tasks' = Append(tasks, t)
              /\ idx' = idx + 1
              /\ pc' = pc
    /\ UNCHANGED simVars

\* end of file: no tasks is a ValueError, otherwise main calls simulate_rm
LoadEOF ==
    /\ pc = "load"
    /\ pc' = IF tasks = <<>> THEN "exit1" ELSE "start"
    /\ idx' = 0
    /\ UNCHANGED <<tasks, simVars>>

\* ------------------------------------------------------------------------
\* simulate_rm
\* ------------------------------------------------------------------------
\* the jobs the release loop appends at time t, in the order of tasks
ReleasedAt(t) ==
    LET ks == SelectSeq([k \in 1..Len(tasks) |-> k], LAMBDA k : t % tasks[k].p = 0)
    IN  [i \in 1..Len(ks) |-> Job(ks[i], t)]

\* mutant: a job at its deadline is not yet a miss
DeadlineMiss_AfterDeadline(r, t) ==
    \E i \in 1..Len(r) : t > r[i].deadline /\ r[i].remaining > 0

\* mutant: the deadline check fires one tick early
DeadlineMiss_OneTickEarly(r, t) ==
    \E i \in 1..Len(r) : t + 1 >= r[i].deadline /\ r[i].remaining > 0

\* the deadline check finds a job: time >= job.deadline and job.remaining > 0
DeadlineMiss(r, t) ==
    \E i \in 1..Len(r) : t >= r[i].deadline /\ r[i].remaining > 0

\* mutant: the key is the period alone, ties fall to the order in ready
KeyLess_PeriodOnly(j, k) == tasks[j.task].p < tasks[k.task].p

\* (j.task.p, j.task.id) < (k.task.p, k.task.id)
KeyLess(j, k) ==
    \/ tasks[j.task].p < tasks[k.task].p
    \/ tasks[j.task].p = tasks[k.task].p /\ tasks[j.task].id < tasks[k.task].id

\* mutant: among jobs with the smallest key the last one is taken
MinIndex_LastOfEqual(r) ==
    CHOOSE i \in 1..Len(r) :
        /\ \A j \in 1..Len(r) : ~KeyLess(r[j], r[i])
        /\ \A j \in (i + 1)..Len(r) : KeyLess(r[i], r[j])

\* min(ready, key=...): position of the first job with the smallest key
MinIndex(r) ==
    CHOOSE i \in 1..Len(r) :
        /\ \A j \in 1..Len(r) : ~KeyLess(r[j], r[i])
        /\ \A j \in 1..(i - 1) : KeyLess(r[i], r[j])

\* position in r of the Job object ref refers to
IndexOf(r, ref) == CHOOSE i \in 1..Len(r) : JobRef(r[i]) = ref

\* list.remove of the element at position i
RemoveAt(r, i) == SubSeq(r, 1, i - 1) \o SubSeq(r, i + 1, Len(r))

\* the early-exit test after a tick was executed
EarlyExit(t, r) == t >= hyper /\ r = <<>>

\* preempts, hyper, horizon, ready, current, time are set up
SimStart ==
    /\ pc = "start"
    /\ preempts' = [i \in 1..Len(tasks) |-> 0]
    /\ hyper' = _hyper_period([k \in 1..Len(tasks) |-> tasks[k].p])
    /\ horizon' = hyper' + MaxOf([k \in 1..Len(tasks) |-> tasks[k].d])
    /\ ready' = <<>>
    /\ current' = None
    /\ time' = 0
    /\ pc' = "loop"
    /\ UNCHANGED <<idx, tasks, chosen, feasible, trace>>

\* while time < horizon: 1) release new jobs
Release ==
    /\ pc = "loop"
    /\ time < horizon
    /\ ready' = ready \o ReleasedAt(time)
    /\ pc' = "check"
    /\ UNCHANGED <<idx, tasks, preempts, hyper, horizon, current, chosen, time,
                   feasible, trace>>

\* the loop condition fails: return True, preempts
ReturnAtHorizon ==
    /\ pc = "loop"
    /\ time >= horizon
    /\ feasible' = "true"
    /\ pc' = "done"
    /\ UNCHANGED <<idx, tasks, preempts, hyper, horizon, ready, current, chosen,
                   time, trace>>

\* 2) deadline check finds a miss: return False, preempts
ReturnMiss ==
    /\ pc = "check"
    /\ DeadlineMiss(ready, time)
    /\ feasible' = "false"
    /\ pc' = "done"
    /\ UNCHANGED <<idx, tasks, preempts, hyper, horizon, ready, current, chosen,
                   time, trace>>

\* 2) deadline check passes
CheckPass ==
    /\ pc = "check"
    /\ ~DeadlineMiss(ready, time)
    /\ pc' = "select"
    /\ UNCHANGED <<idx, tasks, simVars>>

\* 3) ready is non-empty: chosen = min(ready, ...)
Select ==
    /\ pc = "select"
    /\ ready # <<>>
    /\ chosen' = JobRef(ready[MinIndex(ready)])
    /\ pc' = "account"
    /\ UNCHANGED <<idx, tasks, preempts, hyper, horizon, ready, current, time,
                   feasible, trace>>

\* 3) ready is empty: time += 1; continue
Idle ==
    /\ pc = "select"
    /\ ready = <<>>
    /\ time' = time + 1
    /\ trace' = Append(trace, [job |-> None, left |-> 0])
    /\ pc' = "loop"
    /\ UNCHANGED <<idx, tasks, preempts, hyper, horizon, ready, current, chosen,
                   feasible>>

\* mutant: the accounting is not limited to the first hyper-period
Displaced_AnyTime == current # None /\ current # chosen

\* the condition of the pre-emption accounting
Displaced == current # None /\ current # chosen /\ time < hyper

\* 4) pre-emption accounting, then current = chosen
Account ==
    /\ pc = "account"
    /\ Displaced => tasks[current.task].id + 1 \in DOMAIN preempts
    /\ preempts' = IF Displaced
                   THEN [preempts EXCEPT ![tasks[current.task].id + 1] = @ + 1]
                   ELSE preempts
    /\ current' = chosen
    /\ pc' = "execute"
    /\ UNCHANGED <<idx, tasks, hyper, horizon, ready, chosen, time, feasible, trace>>

\* 4) preempts[current.task.id] is out of range: IndexError ends the program
AccountIndexError ==
    /\ pc = "account"
    /\ Displaced
    /\ tasks[current.task].id + 1 \notin DOMAIN preempts
    /\ pc' = "index_error"
    /\ UNCHANGED <<idx, tasks, simVars>>

\* mutant: current is not reset to None when the job completes
Execute_KeepsCurrent ==
    /\ pc = "execute"
    /\ LET i == IndexOf(ready, current)
           left == ready[i].remaining - 1
       IN  /\ IF left = 0
              THEN ready' = RemoveAt(ready, i)
              ELSE ready' = [ready EXCEPT ![i].remaining = left]
           /\ current' = current
           /\ trace' = Append(trace, [job |-> current, left |-> left])
    /\ time' = time + 1
    /\ pc' = "exitcheck"
    /\ UNCHANGED <<idx, tasks, preempts, hyper, horizon, chosen, feasible>>

\* mutant: a completed job is not removed from ready
Execute_NoRemove ==
    /\ pc = "execute"
    /\ LET i == IndexOf(ready, current)
           left == ready[i].remaining - 1
       IN  /\ ready' = [ready EXCEPT ![i].remaining = left]
           /\ current' = IF left = 0 THEN None ELSE current
           /\ trace' = Append(trace, [job |-> current, left |-> left])
    /\ time' = time + 1
    /\ pc' = "exitcheck"
    /\ UNCHANGED <<idx, tasks, preempts, hyper, horizon, chosen, feasible>>

\* 5) execute current for one time unit; time += 1
Execute ==
    /\ pc = "execute"
    /\ LET i == IndexOf(ready, current)
           left == ready[i].remaining - 1
       IN  /\ IF left = 0
              THEN /\ ready' = RemoveAt(ready, i)
                   /\ current' = None
              ELSE /\ ready' = [ready EXCEPT ![i].remaining = left]
                   /\ current' = current
           /\ trace' = Append(trace, [job |-> current, left |-> left])
    /\ time' = time + 1
    /\ pc' = "exitcheck"
    /\ UNCHANGED <<idx, tasks, preempts, hyper, horizon, chosen, feasible>>

\* early exit: break, return True, preempts
Break ==
    /\ pc = "exitcheck"
    /\ EarlyExit(time, ready)
    /\ feasible' = "true"
    /\ pc' = "done"
    /\ UNCHANGED <<idx, tasks, preempts, hyper, horizon, ready, current, chosen,
                   time, trace>>

\* no early exit: next iteration
Continue ==
    /\ pc = "exitcheck"
    /\ ~EarlyExit(time, ready)
    /\ pc' = "loop"
    /\ UNCHANGED <<idx, tasks, simVars>>

Next ==
    \/ LoadBlank
    \/ LoadMalformed
    \/ LoadNonFinite
    \/ LoadRecord
    \/ LoadEOF
    \/ SimStart
    \/ Release
    \/ ReturnAtHorizon
    \/ ReturnMiss
    \/ CheckPass
    \/ Select
    \/ Idle
    \/ Account
    \/ AccountIndexError
    \/ Execute
    \/ Break
    \/ Continue

Spec == Init /\ [][Next]_vars

\* ------------------------------------------------------------------------
\* simulate_rm called on a task list stored in any order
\* ------------------------------------------------------------------------
MaxPermTasks == 2

\* simulate_rm(tasks) is entered with a list of 1..MaxPermTasks tasks whose
\* ids are 0..n-1, stored in any order
InitPermuted ==
    /\ pc = "start"
    /\ idx = 0
    /\ \E n \in 1..MaxPermTasks :
         /\ tasks \in [1..n -> [id : 0..(n - 1), e : ExecTicks, p : PeriodTicks,
                                d : DeadlineTicks]]
         /\ \A i \in 0..(n - 1) : \E k \in 1..n : tasks[k].id = i
    /\ preempts = <<>>
    /\ hyper = 0
    /\ horizon = 0
    /\ ready = <<>>
    /\ current = None
    /\ chosen = None
    /\ time = 0
    /\ feasible = "none"
    /\ trace = <<>>

NextSim ==
    \/ SimStart
    \/ Release
    \/ ReturnAtHorizon
    \/ ReturnMiss
    \/ CheckPass
    \/ Select
    \/ Idle
    \/ Account
    \/ Execute
    \/ Break
    \/ Continue

SpecPermuted == InitPermuted /\ [][NextSim]_vars

\* ------------------------------------------------------------------------
\* Reference notions the claims are stated with
\* ------------------------------------------------------------------------
\* m is the least common multiple of the periods of tasks
IsHyperPeriod(m) ==
    /\ m >= 1
    /\ \A k \in 1..Len(tasks) : m % tasks[k].p = 0
    /\ \A n \in 1..(m - 1) : \E k \in 1..Len(tasks) : n % tasks[k].p # 0

\* d is the largest relative deadline of tasks
IsMaxDeadline(d) ==
    /\ \E k \in 1..Len(tasks) : tasks[k].d = d
    /\ \A k \in 1..Len(tasks) : tasks[k].d <= d

\* the ready list after the first job of the highest-priority task in r ran
\* for one tick
RanOneTick(r) ==
    LET i == MinIndex(r) IN
    IF r[i].remaining = 1 THEN RemoveAt(r, i)
    ELSE [r EXCEPT ![i].remaining = @ - 1]

\* the RM schedule run tick by tick from tick t with ready list r up to tick
\* `until`, with no early exit: is there a tick at which a released,
\* unfinished job is at or past its absolute deadline?
RECURSIVE FullRunMisses(_, _, _)
FullRunMisses(r, t, until) ==
    IF t >= until THEN FALSE
    ELSE LET r1 == r \o ReleasedAt(t) IN
         IF DeadlineMiss(r1, t) THEN TRUE
         ELSE IF r1 = <<>> THEN FullRunMisses(r1, t + 1, until)
         ELSE FullRunMisses(RanOneTick(r1), t + 1, until)

\* the window [0, hyper_period + max deadline) of the tasks
FullWindowMisses ==
    LET h == CHOOSE m \in 1..hyper : IsHyperPeriod(m)
        d == CHOOSE x \in {tasks[k].d : k \in 1..Len(tasks)} : IsMaxDeadline(x)
    IN  FullRunMisses(<<>>, 0, h + d)

\* sum of e/p over the tasks s[1..n], as numerator and denominator
RECURSIVE UtilNum(_, _)
RECURSIVE UtilDen(_, _)
UtilDen(s, n) == IF n = 0 THEN 1 ELSE UtilDen(s, n - 1) * s[n].p
UtilNum(s, n) ==
    IF n = 0 THEN 0
    ELSE UtilNum(s, n - 1) * s[n].p + s[n].e * UtilDen(s, n - 1)

Overloaded == UtilNum(tasks, Len(tasks)) > UtilDen(tasks, Len(tasks))

\* the task ids are 0..n-1 in list order
DenseIds == \A k \in 1..Len(tasks) : tasks[k].id = k - 1

\* simulate_rm has been entered
InSimulation ==
    pc \in {"loop", "check", "select", "account", "execute", "exitcheck",
            "done", "index_error"}

\* ------------------------------------------------------------------------
\* Claims
\* ------------------------------------------------------------------------
\* C1: for every non-empty valid task set simulate_rm returns feasible=true
\* if and only if the RM schedule run over the whole window
\* [0, hyper_period + max deadline) without early exit has no tick at which
\* a released, unfinished job is at or past its absolute deadline.
C1_FeasibleIffFullRunClean ==
    pc \in {"done", "index_error"} =>
        ((feasible = "true") <=> ~FullWindowMisses)

\* C2: a task set with total utilization > 1 is reported infeasible, for
\* every choice of deadlines.
C2_OverloadIsInfeasible ==
    (pc = "done" /\ Overloaded) => feasible = "false"

\* the task set of scenario 2 was loaded
Scenario2 ==
    tasks = <<[id |-> 0, e |-> 1, p |-> 4, d |-> 4],
              [id |-> 1, e |-> 2, p |-> 6, d |-> 6]>>

\* C3 as stated: Task0(1,4,4), Task1(2,6,6) gives hyper_period = 12,
\* feasible = true and preemption_counts = [0, 1].
C3_Scenario2CountsZeroOne ==
    (Scenario2 /\ pc = "done") =>
        (hyper = 12 /\ feasible = "true" /\ preempts = <<0, 1>>)

\* C3 amended: Task0(1,4,4), Task1(2,6,6) gives hyper_period = 12,
\* feasible = true and preemption_counts = [0, 0]: Task1 runs in [1,3) and
\* [6,8), between the releases of Task0, and is never preempted.
C3_Scenario2CountsZeroZero ==
    (Scenario2 /\ pc = "done") =>
        (hyper = 12 /\ feasible = "true" /\ preempts = <<0, 0>>)

C3_Witness == Scenario2 /\ pc = "done" /\ time > hyper

\* C4: the N-th accepted record becomes the Task with id = N, so the ids of
\* the loaded tasks are 0..n-1 in input order.
C4_IdsAreRecordIndices ==
    pc = "start" => DenseIds

\* C5: for every accepted workload simulate_rm returns a pair with one count
\* per loaded task and never fails with an error during the simulation.
C5_SimulationNeverFails ==
    /\ pc # "index_error"
    /\ pc = "done" => (feasible \in {"true", "false"} /\ Len(preempts) = Len(tasks))

\* C6: whenever the clock reaches a value >= hyper_period while the ready
\* set is empty, simulate_rm stops there: it does not go on to release a job
\* or execute a tick.
C6_StopsOnceIdlePastHyper ==
    (pc = "loop" /\ time >= hyper /\ ready = <<>>) => time >= horizon

\* tick t (0 < t) displaced the job that ran at tick t-1: that job belongs to
\* the task with id i, still had remaining ticks, and another job ran at t
DisplacedAtTick(i, t) ==
    /\ t + 1 <= Len(trace)
    /\ trace[t].job # None
    /\ tasks[trace[t].job.task].id = i
    /\ trace[t].left > 0
    /\ trace[t + 1].job # None
    /\ trace[t + 1].job # trace[t].job

\* tick t (0 < t) ran another job than tick t-1 because that job completed
SwitchAfterCompletion(t) ==
    /\ t + 1 <= Len(trace)
    /\ trace[t].job # None
    /\ trace[t].left = 0
    /\ trace[t + 1].job # None

\* C7: when simulate_rm returns, preemption_counts[i] is the number of ticks
\* t with 0 < t < hyper_period at which the job that ran at t-1 belongs to
\* task i, was left unfinished, and a different job runs at t; a switch after
\* a completion is not counted.
C7_CountsAreDisplacements ==
    pc = "done" =>
        \A i \in 0..(Len(preempts) - 1) :
            preempts[i + 1] =
                Cardinality({t \in 1..(hyper - 1) : DisplacedAtTick(i, t)})

C7_Witness ==
    /\ pc = "done"
    /\ \E i \in 0..(Len(preempts) - 1) : preempts[i + 1] >= 2
    /\ \E t \in 1..(hyper - 1) : SwitchAfterCompletion(t)

\* C8: from the moment the clock reaches hyper_period until simulate_rm
\* returns no entry of preemption_counts changes.
C8_NoCountingPastHyper ==
    [][(InSimulation /\ time >= hyper) => preempts' = preempts]_vars

\* a job is displaced at a tick t >= hyper_period, and the run went on
C8_Witness ==
    /\ pc = "execute"
    /\ time >= hyper
    /\ Len(trace) = time
    /\ trace[time].job # None
    /\ trace[time].left > 0
    /\ trace[time].job # current

\* position in tasks of the task that is first in the RM order
TopTask ==
    CHOOSE k \in 1..Len(tasks) :
        \A j \in 1..Len(tasks) :
            j # k => \/ tasks[k].p < tasks[j].p
                     \/ tasks[k].p = tasks[j].p /\ tasks[k].id < tasks[j].id

\* C9: in every state of simulate_rm and in every returned result every
\* preemption count is >= 0 and the count of the task that is first in the
\* RM order is 0. The count of a task is the entry its id indexes; where the
\* list has no such entry, the entry at the task's position in the input
\* (the one main prints for it) is taken.
C9_NonNegativeAndTopZero ==
    InSimulation =>
        /\ \A i \in DOMAIN preempts : preempts[i] >= 0
        /\ \/ /\ tasks[TopTask].id + 1 \in DOMAIN preempts
              /\ preempts[tasks[TopTask].id + 1] = 0
           \/ /\ tasks[TopTask].id + 1 \notin DOMAIN preempts
              /\ preempts[TopTask] = 0

\* the jobs that ran to completion, with the tick they completed in
CompletedAt(t) ==
    t \in 1..Len(trace) /\ trace[t].job # None /\ trace[t].left = 0

\* C10: a job whose remaining_ticks reaches 0 during the tick at
\* absolute_deadline - 1 or earlier never causes a reported miss: a miss is
\* reported only for a job that is in the ready set with remaining_ticks > 0
\* at a tick t >= its absolute_deadline.
C10_MissOnlyForUnfinishedLateJob ==
    /\ \A t \in 1..Len(trace) :
         (CompletedAt(t) /\ t - 1 <= trace[t].job.deadline - 1) =>
             \A i \in 1..Len(ready) : JobRef(ready[i]) # trace[t].job
    /\ (pc = "done" /\ feasible = "false") =>
         \E i \in 1..Len(ready) :
             /\ ready[i].remaining > 0
             /\ time >= ready[i].deadline
             /\ \A t \in 1..Len(trace) : trace[t].job = JobRef(ready[i]) => trace[t].left > 0

\* a miss is reported after some job completed exactly in the tick at its
\* absolute_deadline - 1
C10_Witness ==
    /\ pc = "done"
    /\ feasible = "false"
    /\ \E t \in 1..Len(trace) : CompletedAt(t) /\ t - 1 = trace[t].job.deadline - 1

\* ------------------------------------------------------------------------
\* simulate_rm as a function of the task list, for comparing two runs
\* ------------------------------------------------------------------------
\* the task list ts in the order of the ids 0..n-1
SortedById(ts) ==
    [i \in 1..Len(ts) |-> ts[CHOOSE k \in 1..Len(ts) : ts[k].id = i - 1]]

\* the jobs released at t, in the order of ts
RunReleased(ts, t) ==
    LET ks == SelectSeq([k \in 1..Len(ts) |-> k], LAMBDA k : t % ts[k].p = 0)
    IN  [i \in 1..Len(ks) |->
            [id |-> ts[ks[i]].id, p |-> ts[ks[i]].p, remaining |-> ts[ks[i]].e,
             deadline |-> t + ts[ks[i]].d]]

\* position of the first job of r with the smallest (p, id)
RunMin(r) ==
    CHOOSE i \in 1..Len(r) :
        /\ \A j \in 1..Len(r) :
             ~(r[j].p < r[i].p \/ (r[j].p = r[i].p /\ r[j].id < r[i].id))
        /\ \A j \in 1..(i - 1) : r[j].p # r[i].p \/ r[j].id # r[i].id

\* the loop of simulate_rm from the state st = [r, cur, pre, t]; cur is
\* <<id, deadline>> of the current job or <<>> for None
RECURSIVE RunLoop(_, _, _, _)
RunLoop(ts, hy, hz, st) ==
    IF st.t >= hz THEN [feasible |-> "true", preempts |-> st.pre]
    ELSE
    LET r1 == st.r \o RunReleased(ts, st.t) IN
    IF \E i \in 1..Len(r1) : st.t >= r1[i].deadline /\ r1[i].remaining > 0
    THEN [feasible |-> "false", preempts |-> st.pre]
    ELSE IF r1 = <<>>
    THEN RunLoop(ts, hy, hz, [st EXCEPT !.r = r1, !.t = @ + 1])
    ELSE
    LET i == RunMin(r1)
        ch == <<r1[i].id, r1[i].deadline>>
        pre1 == IF st.cur # <<>> /\ st.cur # ch /\ st.t < hy
                THEN [st.pre EXCEPT ![st.cur[1] + 1] = @ + 1]
                ELSE st.pre
        left == r1[i].remaining - 1
        r2 == IF left = 0 THEN RemoveAt(r1, i)
              ELSE [r1 EXCEPT ![i].remaining = left]
        cur2 == IF left = 0 THEN <<>> ELSE ch
    IN  IF st.t + 1 >= hy /\ r2 = <<>>
        THEN [feasible |-> "true", preempts |-> pre1]
        ELSE RunLoop(ts, hy, hz, [r |-> r2, cur |-> cur2, pre |-> pre1, t |-> st.t + 1])

\* the pair simulate_rm(ts) returns
RunResult(ts) ==
    LET hy == _hyper_period([k \in 1..Len(ts) |-> ts[k].p])
        hz == hy + MaxOf([k \in 1..Len(ts) |-> ts[k].d])
    IN  RunLoop(ts, hy, hz,
                [r |-> <<>>, cur |-> <<>>, pre |-> [i \in 1..Len(ts) |-> 0], t |-> 0])

\* C11: the result of simulate_rm does not depend on the order in which the
\* tasks are stored: on a task list with ids 0..n-1 stored in any order it
\* returns the feasible flag and the counts it returns on the same tasks
\* stored in the order of their ids.
C11_ResultIndependentOfOrder ==
    pc = "done" =>
        [feasible |-> feasible, preempts |-> preempts] = RunResult(SortedById(tasks))

\* a run on a list that is not in id order returned a non-zero count
C11_Witness ==
    /\ pc = "done"
    /\ tasks # SortedById(tasks)
    /\ \E i \in 1..Len(preempts) : preempts[i] > 0

\* nothing of simulate_rm has happened
NotSimulated ==
    /\ preempts = <<>>
    /\ hyper = 0
    /\ horizon = 0
    /\ ready = <<>>
    /\ current = None
    /\ chosen = None
    /\ time = 0
    /\ feasible = "none"
    /\ trace = <<>>

\* C12: if the input has no task record, or has a record that is malformed
\* or has a scaled execution time, period or deadline <= 0, main stops with
\* an error and simulate_rm is never invoked: a record with a value <= 0
\* never becomes a task, simulate_rm is entered only with a non-empty list,
\* and a run that ended with the error has no simulation step.
C12_InvalidWorkloadNeverSimulated ==
    /\ \A k \in 1..Len(tasks) : tasks[k].e > 0 /\ tasks[k].p > 0 /\ tasks[k].d > 0
    /\ (pc = "start" \/ InSimulation) => tasks # <<>>
    /\ pc \in {"load", "exit1"} => NotSimulated

\* the error ended a load that had already accepted a record
C12_Witness == pc = "exit1" /\ tasks # <<>>

\* C13: a tick whose ready set is empty after the release and the deadline
\* check changes nothing except the clock: the ready set (and so every
\* job's remaining_ticks) and the preemption counts are unchanged, current
\* is none before and after, and time advances by exactly 1.
C13_IdleTickOnlyAdvancesClock ==
    [][(pc = "select" /\ ready = <<>>) =>
           /\ ready' = ready
           /\ preempts' = preempts
           /\ current = None
           /\ current' = None
           /\ time' = time + 1]_vars

\* the tick that just ended was idle, after a job had executed earlier
C13_Witness ==
    /\ pc = "loop"
    /\ time > 1
    /\ trace[time].job = None
    /\ \E t \in 1..(time - 1) : trace[t].job # None

\* one trace entry per completed loop iteration, the clock stays within the
\* horizon, and a returned run ended by a deadline miss, by the early exit
\* or at the horizon
ClockStepsAndEnding ==
    /\ InSimulation => Len(trace) = time
    /\ InSimulation => time <= horizon
    /\ pc = "done" =>
           \/ feasible = "false" /\ DeadlineMiss(ready, time)
           \/ feasible = "true" /\ EarlyExit(time, ready) /\ time >= 1
                /\ trace[time].job # None
           \/ feasible = "true" /\ time = horizon

\* C14: for every non-empty valid task set simulate_rm returns: the clock
\* advances by exactly 1 on every loop iteration (idle or executing), never
\* exceeds horizon = hyper_period + max deadline_ticks, and the run ends by
\* a deadline miss, by the early exit or by reaching the horizon; no run
\* ends in any other way.
C14_ClockBoundedRunReturns ==
    /\ ClockStepsAndEnding
    /\ pc \notin {"done", "exit1", "load", "start"} =>
           ENABLED (Release \/ ReturnAtHorizon \/ ReturnMiss \/ CheckPass \/ Select
                      \/ Idle \/ Account \/ Execute \/ Break \/ Continue)

\* remaining ticks of the job ref refers to in the ready list r; 0 if the job
\* is not in r
RemainingOf(r, ref) ==
    IF \E i \in 1..Len(r) : JobRef(r[i]) = ref
    THEN r[IndexOf(r, ref)].remaining
    ELSE 0

\* the step that executes a tick runs exactly the job current, which is a
\* ready job of the task with the smallest (p, id) among the ready jobs: its
\* remaining ticks drop by one (a job with none left leaves the ready list),
\* every other ready job keeps its remaining ticks, and no job appears
ExecuteStepRunsTopJob ==
    pc = "execute" =>
        /\ pc' = "exitcheck"
        /\ current = chosen
        /\ \E i \in 1..Len(ready) : JobRef(ready[i]) = current
        /\ \A j \in 1..Len(ready) : ~KeyLess(ready[j], current)
        /\ \A j \in 1..Len(ready) :
               RemainingOf(ready', JobRef(ready[j])) =
                   IF JobRef(ready[j]) = current
                   THEN ready[j].remaining - 1
                   ELSE ready[j].remaining
        /\ \A j \in 1..Len(ready') :
               \E i \in 1..Len(ready) : JobRef(ready'[j]) = JobRef(ready[i])
        /\ Len(trace') = Len(trace) + 1
        /\ trace'[Len(trace')].job = current

\* every tick that reaches the execute step obeys the rule
ExecutedTicksRunTopJob == [][ExecuteStepRunsTopJob]_vars

\* C15: at every tick whose ready set is non-empty after the release step
\* and at which no deadline miss is detected, exactly one job executes: the
\* tick goes from the selection through the accounting to the execute step
\* (the processor does not idle and the tick is not abandoned), the executed
\* job is a job of the task with the smallest (period_ticks, id) among the
\* ready jobs, its remaining_ticks decreases by exactly 1 and the
\* remaining_ticks of every other ready job is unchanged.
C15_ReadyTickExecutesTopJob ==
    [][/\ (pc = "select" /\ ready # <<>>) => pc' = "account"
       /\ pc = "account" => pc' = "execute"
       /\ ExecuteStepRunsTopJob]_vars

\* positions of the jobs a step appended to the ready list
NewPositions == (Len(ready) + 1)..Len(ready')

\* C16: at every simulated tick t the release step, which comes before the
\* deadline check and the selection of the tick, keeps the jobs already
\* ready and adds for every task exactly one new job if period_ticks
\* divides t (every task at t = 0) and none otherwise; the new job has
\* remaining_ticks = execution_ticks and absolute_deadline = t +
\* deadline_ticks. No other step adds a job.
C16_ReleaseAddsOneJobPerDueTask ==
    [][/\ (pc = "loop" /\ time < horizon) =>
              /\ pc' = "check"
              /\ time' = time
              /\ Len(ready') >= Len(ready)
              /\ SubSeq(ready', 1, Len(ready)) = ready
              /\ \A k \in 1..Len(tasks) :
                     Cardinality({j \in NewPositions : ready'[j].task = k}) =
                         IF time % tasks[k].p = 0 THEN 1 ELSE 0
              /\ \A j \in NewPositions :
                     /\ ready'[j].task \in 1..Len(tasks)
                     /\ ready'[j].remaining = tasks[ready'[j].task].e
                     /\ ready'[j].deadline = time + tasks[ready'[j].task].d
       /\ ~(pc = "loop" /\ time < horizon) => Len(ready') <= Len(ready)]_vars

\* a job released at a tick t > 0 was the job executed at t, while an older
\* job was waiting
C16_Witness ==
    /\ pc = "exitcheck"
    /\ time > 1
    /\ trace[time].job # None
    /\ trace[time].job.deadline = (time - 1) + tasks[trace[time].job.task].d
    /\ \E i \in 1..Len(ready) : ready[i].deadline < trace[time].job.deadline

\* C17: a task never preempts itself. When several jobs of one task are
\* ready, the job that executes is the earliest released of them (so it
\* runs until it completes before a later one runs); preemption_counts[i]
\* changes only in the accounting of a tick, by exactly 1, for the task with
\* id i of the displaced job, and the chosen job of that tick belongs to
\* another task that is strictly before it in the (period_ticks, id) order.
C17_NoSelfPreemption ==
    [][/\ pc = "execute" =>
              \A j \in 1..Len(ready) :
                  ready[j].task = current.task => current.deadline <= ready[j].deadline
       /\ \A i \in DOMAIN preempts \cap DOMAIN preempts' :
              preempts'[i] # preempts[i] =>
                  /\ pc = "account"
                  /\ current # None
                  /\ tasks[current.task].id = i - 1
                  /\ chosen.task # current.task
                  /\ tasks[chosen.task].id # i - 1
                  /\ KeyLess(chosen, current)
                  /\ preempts'[i] = preempts[i] + 1]_vars

\* two jobs of the executing task are ready, and a count was incremented
C17_Witness ==
    /\ pc = "execute"
    /\ \E j \in 1..Len(ready) :
           ready[j].task = current.task /\ ready[j].deadline > current.deadline
    /\ \E i \in 1..Len(preempts) : preempts[i] > 0

\* C18: at the start of every loop iteration every ready job has
\* 1 <= remaining_ticks <= execution_ticks of its task, and current is
\* either none or a job in the ready set that was the job executed in the
\* immediately preceding tick; current is none whenever the ready set is
\* empty.
C18_LoopInvariant ==
    pc = "loop" =>
        /\ \A i \in 1..Len(ready) :
               1 <= ready[i].remaining /\ ready[i].remaining <= tasks[ready[i].task].e
        /\ current # None =>
               /\ \E i \in 1..Len(ready) : JobRef(ready[i]) = current
               /\ time >= 1
               /\ trace[time].job = current
        /\ ready = <<>> => current = None

\* an iteration starts with an unfinished current job while another job waits
C18_Witness ==
    /\ pc = "loop"
    /\ current # None
    /\ Len(ready) >= 2
    /\ \E i \in 1..Len(ready) : ready[i].remaining < tasks[ready[i].task].e

\* C19: no job executes at or after its absolute deadline. At every tick at
\* which a job is executed every ready job, executed or waiting, has
\* absolute_deadline > time; and when simulate_rm returns feasible=false
\* the clock equals the absolute deadline of an unfinished ready job, and
\* no ready job's deadline is already past: the miss is reported at the
\* first tick it exists.
C19_NoJobRunsAtOrAfterDeadline ==
    /\ pc \in {"select", "account", "execute"} =>
           \A i \in 1..Len(ready) : ready[i].deadline > time
    /\ (pc = "done" /\ feasible = "false") =>
           /\ \E i \in 1..Len(ready) :
                  ready[i].remaining > 0 /\ ready[i].deadline = time
           /\ \A i \in 1..Len(ready) : ready[i].deadline >= time

\* a miss is reported for a job that ran in the last tick before its
\* deadline and still was not finished
C19_Witness ==
    /\ pc = "done"
    /\ feasible = "false"
    /\ time >= 1
    /\ trace[time].job # None
    /\ trace[time].job.deadline = time
    /\ trace[time].left > 0

====
